---- MODULE Spec2Model ----
(***************************************************************************)
(* Model of machine-learning/utils/ml_analyzer.py: the bounded execution   *)
(* wrapper _predict, the model registry get_models and the behaviour       *)
(* dispatcher _predict_internal with its per-frame loop.                   *)
(*                                                                         *)
(* Numbers are exact rationals <<num, den>>; the IEEE values NaN and       *)
(* +Infinity that json.load accepts are <<0, 0>> and <<1, 0>>, and every    *)
(* comparison is done by cross multiplication, so that a comparison with   *)
(* NaN is false as in Python.                                              *)
(***************************************************************************)
EXTENDS Integers, Sequences, FiniteSets, TLC

\* ------------------------------------------------------------------ bounds
\* Requests handled one after the other by one process.
MaxRequests == 2
\* Lists of every length 0..SmallLen are submitted, besides the long ones.
SmallLen == 2
\* The long lists have FRAME_CAP, FRAME_CAP + 1 .. FRAME_CAP + OverCap items.
OverCap == 1

\* landmark coordinates are the multiples of 1 / Grid in [0, 1]
Grid == 4
\* image sides in pixels: below the minimum box, just above it, and wider
\* than twice the largest padding
SmallSide == 6
MidSide == 13
LargeSide == 50

\* ------------------------------------------------------- program constants
\* data[:10]
FRAME_CAP == 10
\* feature / 100.0
RT_DIVISOR == 100
\* lines 196-197, 229-230: padding of the eye and hand boxes
CROP_PAD == 10
\* lines 258-259: padding of the foot box
FOOT_PAD == 20
\* lines 199, 231, 260: minimum width and height of a box
MIN_BOX == 10

\* --------------------------------------------------------------- rationals
Rat(n, d) == <<n, d>>
Zero == Rat(0, 1)
One == Rat(1, 1)
NaN == Rat(0, 0)
Infinity == Rat(1, 0)
Eq(a, b) == a[1] * b[2] = b[1] * a[2] /\ a # NaN /\ b # NaN
Le(a, b) == a[1] * b[2] <= b[1] * a[2] /\ a # NaN /\ b # NaN
Lt(a, b) == a[1] * b[2] < b[1] * a[2] /\ a # NaN /\ b # NaN
Gt(a, b) == Lt(b, a)
\* Python's min(a, b): b when b < a, else a
PyMin(a, b) == IF Lt(b, a) THEN b ELSE a
InUnit(a) == Le(Zero, a) /\ Le(a, One)

\* ------------------------------------------------------------------ labels
ImageBehaviors == {"eye_gaze", "sit_stand", "tapping_hands", "tapping_feet"}
KnownBehaviors == {"rapid_talking"} \cup ImageBehaviors
UnknownBehaviors == {"unknown_behavior", "Eye_Gaze"}
Behaviors == KnownBehaviors \cup UnknownBehaviors

\* ---------------------------------------------------------------- payloads
\* A JSON value as json.load yields it: kind, numeric value, list length.
NumVals == {Rat(0 - 3, 1), Zero, Rat(1, 2), Rat(40, 1), Rat(99, 1),
            Rat(100, 1), Rat(250, 1), NaN, Infinity}
ListLens == (0 .. SmallLen) \cup (FRAME_CAP .. (FRAME_CAP + OverCap)) \cup {40}
Payloads ==
    [kind : {"null", "string", "dict", "hugeint"}, num : {Zero}, len : {0}]
    \cup [kind : {"bool"}, num : {Zero, One}, len : {0}]
    \cup [kind : {"number"}, num : NumVals, len : {0}]
    \cup [kind : {"list"}, num : {Zero}, len : ListLens]

\* isinstance(data, list)
IsList(d) == d.kind = "list"
\* isinstance(data, (list, int, float)); bool is a subclass of int
IsListIntFloat(d) == d.kind \in {"list", "bool", "number", "hugeint"}

\* --------------------------------------------------------------- exceptions
TimeoutErr == "Prediction timed out"
OverflowErr == "int too large to convert to float"
SignalErr == "signal only works in main thread of the main interpreter"
DecodeErr == "Invalid base64 image"
ExtractErr == "extractor failed"
NoExc == "none"

\* ------------------------------------------------------------------ results
NoResult == [status |-> "none"]
Absent == 0 - 1
NoFeature == <<>>

\* Mutant of frame_limit: the slice is dropped and every frame is processed.
frame_limit_none(n) == n

\* lines 377, 411, 443, 475: len(data[:10])
frame_limit(n) == IF n < FRAME_CAP THEN n ELSE FRAME_CAP

\* lines 341-342: values random.uniform(0.1, 0.9) and random.uniform(0.6,
\* 0.95) can return, the ends of both ranges among them
FallbackDraws == {<<Rat(1, 10), Rat(3, 5)>>, <<Rat(9, 10), Rat(19, 20)>>}
\* Mutant of fallback_result: the score is drawn from twice the range.
fallback_result_wide(draw) ==
    [predicted_score |-> Rat(2 * draw[1][1], draw[1][2]),
     confidence |-> draw[2], status |-> "success",
     message |-> <<"Demo prediction (random)">>,
     frames_processed |-> Absent, counter |-> "none", detections |-> Absent,
     feature_count |-> NoFeature]

\* lines 340-345
fallback_result(draw) ==
    [predicted_score |-> draw[1], confidence |-> draw[2], status |-> "success",
     message |-> <<"Demo prediction (random)">>,
     frames_processed |-> Absent, counter |-> "none", detections |-> Absent,
     feature_count |-> NoFeature]

\* line 359
rapid_score(f) ==
    IF Gt(f, Zero) THEN PyMin(Rat(f[1], f[2] * RT_DIVISOR), One)
    ELSE Rat(1, 10)

\* lines 361-367
rapid_result(f) ==
    [predicted_score |-> rapid_score(f), confidence |-> Rat(4, 5),
     status |-> "success", message |-> <<"Audio analysis complete">>,
     frames_processed |-> Absent, counter |-> "none", detections |-> Absent,
     feature_count |-> f]

\* lines 392, 425, 457, 489
image_confidence(b) ==
    CASE b = "eye_gaze" -> Rat(3, 4)
      [] b = "sit_stand" -> Rat(7, 10)
      [] b = "tapping_hands" -> Rat(4, 5)
      [] b = "tapping_feet" -> Rat(3, 4)

\* lines 395, 428, 460, 492
image_counter(b) ==
    CASE b = "eye_gaze" -> "valid_detections"
      [] b = "sit_stand" -> "pose_detections"
      [] b = "tapping_hands" -> "hand_detections"
      [] b = "tapping_feet" -> "foot_detections"

\* lines 396, 429, 461, 493
image_message(b) ==
    CASE b = "eye_gaze" -> <<"Eye gaze analysis complete">>
      [] b = "sit_stand" -> <<"Sit-stand analysis complete">>
      [] b = "tapping_hands" -> <<"Hand tapping analysis complete">>
      [] b = "tapping_feet" -> <<"Foot tapping analysis complete">>

\* Mutant of image_score: the denominator is the number of frames processed.
image_score_processed(detections, n) ==
    IF n # 0 THEN PyMin(Rat(detections, frame_limit(n)), One) ELSE Rat(1, 10)

\* lines 388, 421, 453, 485: min(detections / len(data), 1.0) if data else 0.1
image_score(detections, n) ==
    IF n # 0 THEN PyMin(Rat(detections, n), One) ELSE Rat(1, 10)

\* Mutant of image_result: frames_processed reports the capped count.
image_result_capped(b, detections, n) ==
    [predicted_score |-> image_score(detections, n),
     confidence |-> image_confidence(b), status |-> "success",
     message |-> image_message(b),
     frames_processed |-> frame_limit(n), counter |-> image_counter(b),
     detections |-> detections, feature_count |-> NoFeature]

\* lines 390-397, 423-430, 455-462, 487-494
image_result(b, detections, n) ==
    [predicted_score |-> image_score(detections, n),
     confidence |-> image_confidence(b), status |-> "success",
     message |-> image_message(b),
     frames_processed |-> n, counter |-> image_counter(b),
     detections |-> detections, feature_count |-> NoFeature]

\* Mutant of unknown_result: the fixed scores of the error handler are used.
unknown_result_as_failure(b) ==
    [predicted_score |-> Rat(3, 10), confidence |-> Rat(1, 2),
     status |-> "error", message |-> <<"Unknown behavior type: ", b>>,
     frames_processed |-> Absent, counter |-> "none", detections |-> Absent,
     feature_count |-> NoFeature]

\* lines 501-506
unknown_result(b) ==
    [predicted_score |-> Zero, confidence |-> Zero, status |-> "error",
     message |-> <<"Unknown behavior type: ", b>>,
     frames_processed |-> Absent, counter |-> "none", detections |-> Absent,
     feature_count |-> NoFeature]

\* lines 311-316
timeout_result ==
    [predicted_score |-> Rat(3, 10), confidence |-> Rat(1, 2),
     status |-> "timeout",
     message |-> <<"Prediction timed out, using fallback">>,
     frames_processed |-> Absent, counter |-> "none", detections |-> Absent,
     feature_count |-> NoFeature]

\* lines 327-332
error_result(e) ==
    [predicted_score |-> Rat(3, 10), confidence |-> Rat(1, 2),
     status |-> "error", message |-> <<"Prediction failed: ", e>>,
     frames_processed |-> Absent, counter |-> "none", detections |-> Absent,
     feature_count |-> NoFeature]


\* ------------------------------------------------------------------- state
\* Where the process runs _predict: the main thread of a process with
\* SIGALRM (CLI), a request thread of the HTTP server, a platform whose
\* signal module has no SIGALRM, a build without the signal module.
Contexts == {"main", "worker", "no_sigalrm", "no_signal"}

VARIABLES
    context,        \* execution context of the process
    MODELS,         \* the module global MODELS: "None", "loaded", "empty"
    nreq,           \* requests started so far
    behavior,       \* argument of _predict
    data,           \* argument of _predict
    pc,             \* statement the call is at
    alarm,          \* the process's SIGALRM timer: "off" or "pending"
    fallback,       \* the local fallback_result of _predict_internal
    feature,        \* the local feature of the rapid_talking branch
    i,              \* frames taken from data[:10] so far
    img,            \* the local img: index of the frame it was decoded from
    crop,           \* the local crop: the extractor found its region
    valid,          \* valid_crops / pose_ / hand_ / foot_detections
    decoded,        \* frame indices handed to _decode_image, in order
    ret,            \* value returned by _predict_internal
    exc,            \* exception being handled by _predict
    result,         \* value returned by _predict
    outcome,        \* "none", "running", "returned", "raised"
    expired,        \* the 30 s budget ran out while the dispatcher ran
    found,          \* frames on which the extractor found its region
    dispRaised,     \* error the dispatcher raised into _predict
    skipped,        \* some frame's decoding or extraction raised
    stray,          \* a TimeoutError was raised outside any _predict call
    \* get_models, statement by statement, in the request threads
    load_all_models, \* the module global: "unset", "function" or "None"
    gmPc,           \* per thread: statement of get_models it is at
    gmRet,          \* per thread: value get_models returned last
    gmCalls,        \* per thread: calls of get_models started
    loads,          \* invocations of load_all_models() so far
    gmRaised,       \* an exception left get_models
    gmOverlap,      \* two calls of get_models were in progress at once
    gmFailed,       \* a load failed and the registry was set to {} by it
    \* the landmark detectors
    mp,             \* the module global mp: "unset", "module" or "None"
    modPc,          \* module-level statement the import of ml_analyzer is at
    detectors,      \* _mp_face_mesh, _mp_hands, _mp_pose: 0 is None, else
                    \* the number of the instance the global refers to
    built,          \* per detector class: instances constructed so far
    used,           \* get_mediapipe_models has been called
    dPc,            \* per thread: statement of the extractor it is at
    dKind,          \* per thread: detector the extractor asks for
    dInst,          \* per thread: the local mp_face_mesh / mp_hands / mp_pose
    \* one call of an extractor on a frame whose landmarks were detected
    extractor,      \* "_eye_crop", "_hand_crop" or "_foot_crop"
    shape,          \* rgb.shape: [h, w] in pixels
    landmarks,      \* [xs, ys]: the lm.x and the lm.y values, in 1/Grid
    cropPc,         \* "idle", "start" (line 189) or "done"
    cropRet,        \* what the extractor returned
    \* one request of POST /analyze (app.py)
    request,        \* the JSON body received
    httpPc,         \* statement of analyze the request is at
    behavior_type,  \* the local behavior_type
    payload,        \* the local payload
    temp_file,      \* content of the temporary file
    predictCalls,   \* arguments of the calls of _predict, in order
    response        \* HTTP status of the response, 0 while there is none

predictVars == <<context, MODELS, nreq, behavior, data, pc, alarm, fallback,
                 feature, i, img, crop, valid, decoded, ret, exc, result,
                 outcome, expired, found, dispRaised, skipped, stray>>

registryVars == <<load_all_models, gmPc, gmRet, gmCalls, loads, gmRaised,
                  gmOverlap, gmFailed>>

\* state of the parts of the program other than one _predict call
detectorVars == <<mp, modPc, detectors, built, used, dPc, dKind, dInst>>

cropVars == <<extractor, shape, landmarks, cropPc, cropRet>>

httpVars == <<request, httpPc, behavior_type, payload, temp_file,
              predictCalls, response>>

auxVars == <<registryVars, detectorVars, cropVars, httpVars>>

vars == <<predictVars, auxVars>>

procVars == <<context, MODELS, nreq>>
argVars == <<behavior, data>>
loopVars == <<i, img, crop, valid, decoded, found, skipped>>
localVars == <<fallback, feature>>

\* statements of _predict_internal
InnerTryPcs == {"decode", "extract", "count"}
OuterTryPcs == {"loop", "frame_err", "score"}
OpenPcs == {"fallback", "branch", "rt_feature", "rt_score", "img_except"}
DispatcherPcs == InnerTryPcs \cup OuterTryPcs \cup OpenPcs
\* statements of _predict
PredictPcs == {"get_models", "install", "after_dispatch", "timeout_h",
               "error_h"}
RestPcs == {"idle", "done", "raised"}

\* request threads of the HTTP server (app.py line 94: app.run is threaded)
MaxThreads == 2
Threads == 1 .. MaxThreads
\* statements of get_models: line 62, lines 64-65, line 66, lines 68-71,
\* line 72
GetModelsPcs == {"idle", "check", "try", "load", "except", "return"}
\* detector classes: FaceMesh, Hands, Pose
Kinds == {"face_mesh", "hands", "pose"}
\* module-level statements: lines 46-50, 126-131, 132-137, the end of the
\* module, an import that raised
ModulePcs == {"import_mp", "eager_hands", "eager_pose", "ready", "crashed"}
\* statements of an extractor and of get_mediapipe_models: line 89, line 92,
\* lines 94-100, 101-106, 107-112, line 117, the extractor's None test,
\* its call of process()
ExtractorPcs == {"idle", "check_mp", "check_face", "new_face", "new_hands",
                 "new_pose", "return", "got", "process"}

\* the extractors that cut a box out of the frame
Extractors == {"_eye_crop", "_hand_crop", "_foot_crop"}
Sides == {SmallSide, MidSide, LargeSide}
Shapes == [h : Sides, w : Sides]
\* the values of lm.x (or lm.y) over the landmarks an extractor reads:
\* two ankles for _foot_crop, 28 eye points, 21 hand points
Coords(f) ==
    {S \in SUBSET (0 .. Grid) :
        S # {} /\ (f = "_foot_crop" => Cardinality(S) <= 2)}
NoCrop == [found |-> FALSE]

\* ------ JSON values of the body of POST /analyze
\* the value of dict.get for a key that is absent; for Python it is None
Missing == [kind |-> "missing", text |-> "", num |-> Zero, len |-> 0]
JsonValue(k, x, n) == [kind |-> k, text |-> "", num |-> x, len |-> n]
JsonString(str, n) == [kind |-> "string", text |-> str, num |-> Zero, len |-> n]
\* null, false, 0, 40, "", [], a list of one frame
PayloadValues ==
    {JsonValue("null", Zero, 0), JsonValue("bool", Zero, 0),
     JsonValue("number", Zero, 0), JsonValue("number", Rat(40, 1), 0),
     JsonString("", 0), JsonValue("list", Zero, 0), JsonValue("list", Zero, 1)}
\* "", two behaviour labels, and a list (not hashable)
LabelValues ==
    {JsonString("", 0), JsonString("rapid_talking", 13),
     JsonString("eye_gaze", 8), JsonValue("list", Zero, 1)}
\* bodies: {} , a JSON array, or an object with some of the five keys
Requests ==
    [body : {"empty_object", "array"}, behaviorType : {Missing},
     behavior_type : {Missing}, data : {Missing}, frame : {Missing},
     frame_sequence : {Missing}]
    \cup
    [body : {"object"},
     behaviorType : {Missing, JsonString("eye_gaze", 8)},
     behavior_type : LabelValues \cup {Missing},
     data : PayloadValues \cup {Missing},
     frame : PayloadValues \cup {Missing},
     frame_sequence : PayloadValues \cup {Missing}]
NoFile == <<>>
\* statements of analyze: lines 26-32, 34-35, 37-41, 44-46, 50-54, 56-67
AnalyzePcs == {"idle", "get_json", "fields", "validate", "dump", "predict",
               "respond", "done"}

TypeOK ==
    /\ context \in Contexts
    /\ MODELS \in {"None", "loaded", "empty"}
    /\ nreq \in 0 .. MaxRequests
    /\ behavior \in Behaviors
    /\ data \in Payloads
    /\ pc \in DispatcherPcs \cup PredictPcs \cup RestPcs
    /\ alarm \in {"off", "pending"}
    /\ i \in 0 .. FRAME_CAP
    /\ valid \in 0 .. FRAME_CAP
    /\ found \in 0 .. FRAME_CAP
    /\ skipped \in BOOLEAN
    /\ img \in 0 .. FRAME_CAP
    /\ crop \in BOOLEAN
    /\ outcome \in {"none", "running", "returned", "raised"}
    /\ expired \in BOOLEAN
    /\ stray \in BOOLEAN
    /\ load_all_models \in {"unset", "function", "None"}
    /\ gmPc \in [Threads -> GetModelsPcs]
    /\ gmRet \in [Threads -> {"nothing", "None", "loaded", "empty"}]
    /\ gmCalls \in [Threads -> 0 .. MaxRequests]
    /\ loads \in 0 .. (MaxThreads * MaxRequests)
    /\ gmRaised \in BOOLEAN /\ gmOverlap \in BOOLEAN /\ gmFailed \in BOOLEAN
    /\ mp \in {"unset", "module", "None"}
    /\ modPc \in ModulePcs
    /\ detectors \in [Kinds -> 0 .. (MaxThreads + 1)]
    /\ built \in [Kinds -> 0 .. (MaxThreads + 1)]
    /\ used \in BOOLEAN
    /\ dPc \in [Threads -> ExtractorPcs]
    /\ dKind \in [Threads -> Kinds]
    /\ dInst \in [Threads -> 0 .. (MaxThreads + 1)]
    /\ extractor \in Extractors
    /\ shape \in Shapes
    /\ landmarks.xs \in Coords(extractor)
    /\ landmarks.ys \in Coords(extractor)
    /\ cropPc \in {"idle", "start", "done"}
    /\ request \in Requests
    /\ httpPc \in AnalyzePcs
    /\ Len(predictCalls) <= 1
    /\ response \in {0, 200, 400, 500}

\* get_models has not been called and model_loader has not been imported
RegistryIdle ==
    /\ load_all_models = "unset"
    /\ gmPc = [t \in Threads |-> "idle"]
    /\ gmRet = [t \in Threads |-> "nothing"]
    /\ gmCalls = [t \in Threads |-> 0]
    /\ loads = 0
    /\ gmRaised = FALSE
    /\ gmOverlap = FALSE
    /\ gmFailed = FALSE

\* lines 82-84: the detector globals are None; nothing imported yet
DetectorsIdle ==
    /\ mp = "unset"
    /\ modPc = "import_mp"
    /\ detectors = [k \in Kinds |-> 0]
    /\ built = [k \in Kinds |-> 0]
    /\ used = FALSE
    /\ dPc = [t \in Threads |-> "idle"]
    /\ dKind = [t \in Threads |-> "face_mesh"]
    /\ dInst = [t \in Threads |-> 0]

\* no extractor call is being looked at
CropIdle ==
    /\ extractor = "_eye_crop"
    /\ shape = [h |-> SmallSide, w |-> SmallSide]
    /\ landmarks = [xs |-> {0}, ys |-> {0}]
    /\ cropPc = "idle"
    /\ cropRet = NoCrop

\* no request has been received
HttpIdle ==
    /\ request = [body |-> "empty_object", behaviorType |-> Missing,
                  behavior_type |-> Missing, data |-> Missing,
                  frame |-> Missing, frame_sequence |-> Missing]
    /\ httpPc = "idle"
    /\ behavior_type = Missing
    /\ payload = Missing
    /\ temp_file = NoFile
    /\ predictCalls = <<>>
    /\ response = 0

InitPredict ==
    /\ context \in Contexts
    /\ MODELS = "None"
    /\ nreq = 0
    /\ behavior = "rapid_talking"
    /\ data = [kind |-> "null", num |-> Zero, len |-> 0]
    /\ pc = "idle"
    /\ alarm = "off"
    /\ fallback = NoResult
    /\ feature = Zero
    /\ i = 0
    /\ img = 0
    /\ crop = FALSE
    /\ valid = 0
    /\ decoded = <<>>
    /\ ret = NoResult
    /\ exc = NoExc
    /\ result = NoResult
    /\ outcome = "none"
    /\ expired = FALSE
    /\ found = 0
    /\ skipped = FALSE
    /\ dispRaised = NoExc
    /\ stray = FALSE

Init ==
    /\ InitPredict
    /\ RegistryIdle
    /\ DetectorsIdle
    /\ CropIdle
    /\ HttpIdle

\* ------------------------------------------------------ exception routing
\* The except clause that receives an exception e raised at statement p:
\* the per-frame handler (lines 383, 417, 449, 481), the per-behaviour
\* handler (lines 399, 432, 464, 496), `except TimeoutError` (line 309, which
\* encloses only the call of line 306 and line 307), `except Exception`
\* (line 325), or none.
\* Mutant of handler: the frame loop has no per-frame try, so a frame's error
\* reaches the per-behaviour handler.
handler_no_frame_try(p, e, ctx) ==
    CASE p \in InnerTryPcs \cup OuterTryPcs -> "img_except"
      [] p \in OpenPcs \cup {"after_dispatch"} ->
            IF e = TimeoutErr /\ ctx = "main" THEN "timeout_h" ELSE "error_h"
      [] p \in {"get_models", "install", "timeout_h"} -> "error_h"
      [] p = "error_h" -> "raised"

handler(p, e, ctx) ==
    CASE p \in InnerTryPcs -> "frame_err"
      [] p \in OuterTryPcs -> "img_except"
      [] p \in OpenPcs \cup {"after_dispatch"} ->
            IF e = TimeoutErr /\ ctx = "main" THEN "timeout_h" ELSE "error_h"
      [] p \in {"get_models", "install", "timeout_h"} -> "error_h"
      [] p = "error_h" -> "raised"

\* Control transfer of `raise e` at the current statement.
Raise(e) ==
    LET h == handler(pc, e, context) IN
    /\ pc' = h
    /\ exc' = IF h \in {"error_h", "timeout_h", "raised"} THEN e ELSE exc
    /\ dispRaised' = IF pc \in DispatcherPcs /\ h = "error_h" THEN e
                     ELSE dispRaised
    /\ outcome' = IF h = "raised" THEN "raised" ELSE outcome
    /\ UNCHANGED <<ret, result>>

\* --------------------------------------------------------------- get_models
\* What line 64-66 can do: load_all_models returns the models, raises, or
\* is None because its import failed (lines 37-41).
LoadOutcomes == {"ok", "fails", "unavailable"}

\* lines 59-72: the registry after get_models(), given the load's outcome
get_models(M, load) ==
    IF M = "None" THEN (IF load = "ok" THEN "loaded" ELSE "empty") ELSE M

\* ------------------------------------------------------------------ actions
\* A caller (main, analyze) calls _predict(behavior, data).
Call ==
    /\ pc = "idle"
    /\ nreq < MaxRequests
    /\ \E b \in Behaviors, d \in Payloads :
          /\ behavior' = b
          /\ data' = d
    /\ nreq' = nreq + 1
    /\ pc' = "get_models"
    /\ outcome' = "running"
    /\ fallback' = NoResult
    /\ feature' = Zero
    /\ i' = 0 /\ img' = 0 /\ crop' = FALSE /\ valid' = 0 /\ found' = 0
    /\ decoded' = <<>> /\ skipped' = FALSE
    /\ ret' = NoResult /\ exc' = NoExc /\ result' = NoResult
    /\ expired' = FALSE /\ dispRaised' = NoExc
    /\ UNCHANGED <<context, MODELS, alarm, stray>>
    /\ UNCHANGED auxVars

\* line 290-291: the load (line 66) succeeds, fails, or the loader is None
GetModels ==
    /\ pc = "get_models"
    /\ \E load \in LoadOutcomes : MODELS' = get_models(MODELS, load)
    /\ pc' = "install"
    /\ UNCHANGED <<context, nreq, argVars, alarm, localVars, loopVars, ret,
                   exc, result, outcome, expired, dispRaised, stray>>
    /\ UNCHANGED auxVars

\* lines 295-303 in the main thread: install the handler, arm the alarm
InstallAlarm ==
    /\ pc = "install"
    /\ context = "main"
    /\ alarm' = "pending"
    /\ pc' = "fallback"
    /\ UNCHANGED <<procVars, argVars, localVars, loopVars, ret, exc, result,
                   outcome, expired, dispRaised, stray>>
    /\ UNCHANGED auxVars

\* line 302 in another thread: signal.signal raises ValueError
InstallInWorker ==
    /\ pc = "install"
    /\ context = "worker"
    /\ Raise(SignalErr)
    /\ UNCHANGED <<procVars, argVars, alarm, localVars, loopVars, expired,
                   stray>>
    /\ UNCHANGED auxVars

\* lines 317-319 and 321-323: run the dispatcher without a timer
RunWithoutTimeout ==
    /\ pc = "install"
    /\ context \in {"no_sigalrm", "no_signal"}
    /\ pc' = "fallback"
    /\ UNCHANGED <<procVars, argVars, alarm, localVars, loopVars, ret, exc,
                   result, outcome, expired, dispRaised, stray>>
    /\ UNCHANGED auxVars


\* --------------------------------------------------------- _predict_internal
\* lines 339-345: the two random.uniform draws
DrawFallback ==
    /\ pc = "fallback"
    /\ \E draw \in FallbackDraws : fallback' = fallback_result(draw)
    /\ pc' = "branch"
    /\ UNCHANGED <<procVars, argVars, alarm, feature, loopVars, ret, exc,
                   result, outcome, expired, dispRaised, stray>>
    /\ UNCHANGED auxVars

\* lines 349, 371, 405, 438, 470: the payload has the shape the branch takes
shape_ok(b, d) ==
    IF b = "rapid_talking" THEN IsListIntFloat(d)
    ELSE IsList(d) /\ d.len # 0

\* The dispatcher returns r to _predict.
Return(r) ==
    /\ ret' = r
    /\ pc' = "after_dispatch"
    /\ UNCHANGED <<exc, result, outcome, dispRaised>>

\* lines 350, 372, 406, 439, 471: return fallback_result
ReturnFallback ==
    /\ pc = "branch"
    /\ behavior \in KnownBehaviors
    /\ ~shape_ok(behavior, data)
    /\ Return(fallback)
    /\ UNCHANGED <<procVars, argVars, alarm, localVars, loopVars, expired,
                   stray>>
    /\ UNCHANGED auxVars

\* lines 500-506
ReturnUnknown ==
    /\ pc = "branch"
    /\ behavior \notin KnownBehaviors
    /\ Return(unknown_result(behavior))
    /\ UNCHANGED <<procVars, argVars, alarm, localVars, loopVars, expired,
                   stray>>
    /\ UNCHANGED auxVars

\* line 348 taken with a list or a number
EnterRapidTalking ==
    /\ pc = "branch"
    /\ behavior = "rapid_talking"
    /\ shape_ok(behavior, data)
    /\ pc' = "rt_feature"
    /\ UNCHANGED <<procVars, argVars, alarm, localVars, loopVars, ret, exc,
                   result, outcome, expired, dispRaised, stray>>
    /\ UNCHANGED auxVars

\* lines 353-356: len(data), or float(data)
rapid_feature(d) == IF IsList(d) THEN Rat(d.len, 1) ELSE d.num

\* lines 353-356; float() of an int beyond the double range raises
RapidFeature ==
    /\ pc = "rt_feature"
    /\ IF data.kind = "hugeint"
       THEN /\ Raise(OverflowErr)
            /\ UNCHANGED feature
       ELSE /\ feature' = rapid_feature(data)
            /\ pc' = "rt_score"
            /\ UNCHANGED <<ret, exc, result, outcome, dispRaised>>
    /\ UNCHANGED <<procVars, argVars, alarm, fallback, loopVars, expired,
                   stray>>
    /\ UNCHANGED auxVars

\* lines 359-367
RapidReturn ==
    /\ pc = "rt_score"
    /\ Return(rapid_result(feature))
    /\ UNCHANGED <<procVars, argVars, alarm, localVars, loopVars, expired,
                   stray>>
    /\ UNCHANGED auxVars

\* lines 374-376, 408-410, 441-442, 473-474: enter the try, zero the counter
EnterFrameLoop ==
    /\ pc = "branch"
    /\ behavior \in ImageBehaviors
    /\ shape_ok(behavior, data)
    /\ valid' = 0
    /\ i' = 0
    /\ pc' = "loop"
    /\ UNCHANGED <<procVars, argVars, alarm, localVars, img, crop, decoded,
                   found, skipped, ret, exc, result, outcome, expired,
                   dispRaised, stray>>
    /\ UNCHANGED auxVars

\* lines 377, 411, 443, 475: the next frame of data[:10]
NextFrame ==
    /\ pc = "loop"
    /\ i < frame_limit(data.len)
    /\ i' = i + 1
    /\ pc' = "decode"
    /\ UNCHANGED <<procVars, argVars, alarm, localVars, img, crop, valid,
                   decoded, found, skipped, ret, exc, result, outcome,
                   expired, dispRaised, stray>>
    /\ UNCHANGED auxVars

\* lines 379, 413, 445, 477: _decode_image returns an image or raises
DecodeFrame ==
    /\ pc = "decode"
    /\ decoded' = Append(decoded, i)
    /\ \/ /\ img' = i
          /\ pc' = "extract"
          /\ UNCHANGED <<skipped, ret, exc, result, outcome, dispRaised>>
       \/ /\ Raise(DecodeErr)
          /\ skipped' = TRUE
          /\ UNCHANGED img
    /\ UNCHANGED <<procVars, argVars, alarm, localVars, i, crop, valid, found,
                   expired, stray>>
    /\ UNCHANGED auxVars

\* lines 380, 414, 446, 478: the extractor is given img and finds its
\* region, finds none, or raises
ExtractFrame ==
    /\ pc = "extract"
    /\ \/ /\ \E c \in BOOLEAN :
                /\ crop' = c
                /\ found' = IF c THEN found + 1 ELSE found
          /\ pc' = "count"
          /\ UNCHANGED <<skipped, ret, exc, result, outcome, dispRaised>>
       \/ /\ Raise(ExtractErr)
          /\ skipped' = TRUE
          /\ UNCHANGED <<crop, found>>
    /\ UNCHANGED <<procVars, argVars, alarm, localVars, i, img, valid,
                   decoded, expired, stray>>
    /\ UNCHANGED auxVars

\* lines 381-382, 415-416, 447-448, 479-480. img and crop are not read
\* again before they are assigned again: they are cleared here, which keeps
\* the state space small and changes no behaviour.
CountFrame ==
    /\ pc = "count"
    /\ valid' = IF crop THEN valid + 1 ELSE valid
    /\ img' = 0
    /\ crop' = FALSE
    /\ pc' = "loop"
    /\ UNCHANGED <<procVars, argVars, alarm, localVars, i, decoded, found,
                   skipped, ret, exc, result, outcome, expired, dispRaised,
                   stray>>
    /\ UNCHANGED auxVars

\* lines 383-385, 417-419, 449-451, 481-483: log and continue (the dead
\* locals are cleared as in CountFrame)
FrameError ==
    /\ pc = "frame_err"
    /\ img' = 0
    /\ crop' = FALSE
    /\ pc' = "loop"
    /\ UNCHANGED <<procVars, argVars, alarm, localVars, i, valid, decoded,
                   found, skipped, ret, exc, result, outcome, expired,
                   dispRaised, stray>>
    /\ UNCHANGED auxVars

\* lines 388-397, 421-430, 453-462, 485-494
ImageReturn ==
    /\ pc = "loop"
    /\ i >= frame_limit(data.len)
    /\ Return(image_result(behavior, valid, data.len))
    /\ UNCHANGED <<procVars, argVars, alarm, localVars, loopVars, expired,
                   stray>>
    /\ UNCHANGED auxVars

\* lines 399-401, 432-434, 464-466, 496-498
ImageExcept ==
    /\ pc = "img_except"
    /\ Return(fallback)
    /\ UNCHANGED <<procVars, argVars, alarm, localVars, loopVars, expired,
                   stray>>
    /\ UNCHANGED auxVars

\* ------------------------------------------------------------------ _predict
\* lines 307-308: cancel the alarm, return the dispatcher's result
CancelAndReturn ==
    /\ pc = "after_dispatch"
    /\ context = "main"
    /\ alarm' = "off"
    /\ result' = ret
    /\ outcome' = "returned"
    /\ pc' = "done"
    /\ UNCHANGED <<procVars, argVars, localVars, loopVars, ret, exc, expired,
                   dispRaised, stray>>
    /\ UNCHANGED auxVars

\* lines 319 and 323: return the dispatcher's result
ReturnDirect ==
    /\ pc = "after_dispatch"
    /\ context # "main"
    /\ result' = ret
    /\ outcome' = "returned"
    /\ pc' = "done"
    /\ UNCHANGED <<procVars, argVars, alarm, localVars, loopVars, ret, exc,
                   expired, dispRaised, stray>>
    /\ UNCHANGED auxVars

\* lines 309-316
TimeoutHandler ==
    /\ pc = "timeout_h"
    /\ result' = timeout_result
    /\ outcome' = "returned"
    /\ pc' = "done"
    /\ UNCHANGED <<procVars, argVars, alarm, localVars, loopVars, ret, exc,
                   expired, dispRaised, stray>>
    /\ UNCHANGED auxVars

\* lines 325-332
ErrorHandler ==
    /\ pc = "error_h"
    /\ result' = error_result(exc)
    /\ outcome' = "returned"
    /\ pc' = "done"
    /\ UNCHANGED <<procVars, argVars, alarm, localVars, loopVars, ret, exc,
                   expired, dispRaised, stray>>
    /\ UNCHANGED auxVars

\* The caller goes on after the call (line 538; app.py lines 56-62 or, for
\* an exception, lines 69-74): the call's arguments, locals and result are
\* no longer live.
CallerResumes ==
    /\ pc \in {"done", "raised"}
    /\ pc' = "idle"
    /\ behavior' = "rapid_talking"
    /\ data' = [kind |-> "null", num |-> Zero, len |-> 0]
    /\ fallback' = NoResult
    /\ feature' = Zero
    /\ i' = 0 /\ img' = 0 /\ crop' = FALSE /\ valid' = 0 /\ found' = 0
    /\ decoded' = <<>> /\ skipped' = FALSE
    /\ ret' = NoResult /\ exc' = NoExc /\ result' = NoResult
    /\ outcome' = "none"
    /\ expired' = FALSE /\ dispRaised' = NoExc
    /\ UNCHANGED <<context, MODELS, nreq, alarm, stray>>
    /\ UNCHANGED auxVars

\* ------------------------------------------------------------------- timing
\* The alarm armed at line 303 goes off 30 s later, wherever the main thread
\* is by then: timeout_handler (lines 297-298) raises TimeoutError at the
\* statement being executed.
AlarmFires ==
    /\ alarm = "pending"
    /\ alarm' = "off"
    /\ IF pc \in RestPcs
       THEN /\ stray' = TRUE
            /\ UNCHANGED <<pc, exc, ret, result, outcome, dispRaised,
                           expired>>
       ELSE /\ Raise(TimeoutErr)
            /\ expired' = (expired \/ pc \in DispatcherPcs)
            /\ UNCHANGED stray
    /\ UNCHANGED <<procVars, argVars, localVars, loopVars>>
    /\ UNCHANGED auxVars

\* Where no alarm was armed (lines 317-323) the 30 s pass all the same.
BudgetElapses ==
    /\ context \in {"no_sigalrm", "no_signal"}
    /\ pc \in DispatcherPcs
    /\ ~expired
    /\ expired' = TRUE
    /\ UNCHANGED <<procVars, argVars, pc, alarm, localVars, loopVars, ret,
                   exc, result, outcome, dispRaised, stray>>
    /\ UNCHANGED auxVars

Next ==
    \/ Call
    \/ GetModels
    \/ InstallAlarm
    \/ InstallInWorker
    \/ RunWithoutTimeout
    \/ DrawFallback
    \/ ReturnFallback
    \/ ReturnUnknown
    \/ EnterRapidTalking
    \/ RapidFeature
    \/ RapidReturn
    \/ EnterFrameLoop
    \/ NextFrame
    \/ DecodeFrame
    \/ ExtractFrame
    \/ CountFrame
    \/ FrameError
    \/ ImageReturn
    \/ ImageExcept
    \/ CancelAndReturn
    \/ ReturnDirect
    \/ TimeoutHandler
    \/ ErrorHandler
    \/ CallerResumes
    \/ AlarmFires
    \/ BudgetElapses

Spec == Init /\ [][Next]_vars


\* ------------------------------------------- get_models, step by step
\* The request threads of the HTTP server call get_models (line 290) with
\* no lock around it. Everything of the single _predict call above stays
\* as it is at start, except the module global MODELS.
predictRest == <<context, nreq, behavior, data, pc, alarm, fallback, feature,
                 i, img, crop, valid, decoded, ret, exc, result, outcome,
                 expired, found, dispRaised, skipped, stray>>

\* lines 36-41: the import of model_loader succeeds or fails
ImportLoader ==
    /\ load_all_models = "unset"
    /\ load_all_models' \in {"function", "None"}
    /\ UNCHANGED <<predictVars, gmPc, gmRet, gmCalls, loads, gmRaised,
                   gmOverlap, gmFailed>>
    /\ UNCHANGED <<detectorVars, cropVars, httpVars>>

\* lines 63-71: the except clause that receives an exception raised at
\* statement p of get_models
get_models_handler(p) == IF p \in {"try", "load"} THEN "except" ELSE "escape"

\* `raise` at the current statement of get_models in thread t
GmRaise(t) ==
    LET h == get_models_handler(gmPc[t]) IN
    /\ gmPc' = [gmPc EXCEPT ![t] = IF h = "except" THEN "except" ELSE "idle"]
    /\ gmRaised' = (gmRaised \/ h = "escape")

\* line 290: a request thread calls get_models()
GmCall(t) ==
    /\ load_all_models # "unset"
    /\ gmPc[t] = "idle"
    /\ gmCalls[t] < MaxRequests
    /\ gmPc' = [gmPc EXCEPT ![t] = "check"]
    /\ gmCalls' = [gmCalls EXCEPT ![t] = @ + 1]
    /\ gmOverlap' = (gmOverlap \/ \E u \in Threads \ {t} : gmPc[u] # "idle")
    /\ UNCHANGED <<predictVars, load_all_models, gmRet, loads, gmRaised,
                   gmFailed>>
    /\ UNCHANGED <<detectorVars, cropVars, httpVars>>

\* line 62: if MODELS is None
GmCheck(t) ==
    /\ gmPc[t] = "check"
    /\ gmPc' = [gmPc EXCEPT ![t] = IF MODELS = "None" THEN "try"
                                   ELSE "return"]
    /\ UNCHANGED <<predictVars, load_all_models, gmRet, gmCalls, loads,
                   gmRaised, gmOverlap, gmFailed>>
    /\ UNCHANGED <<detectorVars, cropVars, httpVars>>

\* lines 64-65: if load_all_models is None: raise ImportError
GmTry(t) ==
    /\ gmPc[t] = "try"
    /\ IF load_all_models = "None"
       THEN GmRaise(t)
       ELSE gmPc' = [gmPc EXCEPT ![t] = "load"] /\ UNCHANGED gmRaised
    /\ UNCHANGED <<predictVars, load_all_models, gmRet, gmCalls, loads,
                   gmOverlap, gmFailed>>
    /\ UNCHANGED <<detectorVars, cropVars, httpVars>>

\* lines 66-67: MODELS = load_all_models(), which returns a mapping or raises
GmLoad(t) ==
    /\ gmPc[t] = "load"
    /\ loads' = loads + 1
    /\ \/ /\ MODELS' = "loaded"
          /\ gmPc' = [gmPc EXCEPT ![t] = "return"]
          /\ UNCHANGED gmRaised
       \/ /\ GmRaise(t)
          /\ UNCHANGED MODELS
    /\ UNCHANGED <<predictRest, load_all_models, gmRet, gmCalls, gmOverlap,
                   gmFailed>>
    /\ UNCHANGED <<detectorVars, cropVars, httpVars>>

\* lines 68-71: except Exception: MODELS = {}
GmExcept(t) ==
    /\ gmPc[t] = "except"
    /\ MODELS' = "empty"
    /\ gmFailed' = TRUE
    /\ gmPc' = [gmPc EXCEPT ![t] = "return"]
    /\ UNCHANGED <<predictRest, load_all_models, gmRet, gmCalls, loads,
                   gmRaised, gmOverlap>>
    /\ UNCHANGED <<detectorVars, cropVars, httpVars>>

\* line 72: return MODELS
GmReturn(t) ==
    /\ gmPc[t] = "return"
    /\ gmRet' = [gmRet EXCEPT ![t] = MODELS]
    /\ gmPc' = [gmPc EXCEPT ![t] = "idle"]
    /\ UNCHANGED <<predictVars, load_all_models, gmCalls, loads, gmRaised,
                   gmOverlap, gmFailed>>
    /\ UNCHANGED <<detectorVars, cropVars, httpVars>>

InitRegistry == Init /\ context = "worker"

NextRegistry ==
    \/ ImportLoader
    \/ \E t \in Threads : GmCall(t)
    \/ \E t \in Threads : GmCheck(t)
    \/ \E t \in Threads : GmTry(t)
    \/ \E t \in Threads : GmLoad(t)
    \/ \E t \in Threads : GmExcept(t)
    \/ \E t \in Threads : GmReturn(t)

SpecRegistry == InitRegistry /\ [][NextRegistry]_vars

\* ----------------------------------------------------- landmark detectors
\* The import of ml_analyzer, then the extractors (_eye_crop, _hand_crop,
\* _foot_crop, _pose_xy) called by the frame loops of the requests being
\* handled, each in its thread, on a platform where _predict reaches the
\* dispatcher in a request thread (no SIGALRM, lines 317-319).

\* lines 46-50: import mediapipe as mp, or mp = None
ImportMp ==
    /\ modPc = "import_mp"
    /\ mp' \in {"module", "None"}
    /\ modPc' = "eager_hands"
    /\ UNCHANGED <<detectors, built, used, dPc, dKind, dInst>>
    /\ UNCHANGED <<predictVars, registryVars, cropVars, httpVars>>

\* A constructor call `global = mp.solutions...(...)` of class k: it
\* returns a new instance, which the global then refers to.
Construct(k) ==
    /\ built' = [built EXCEPT ![k] = @ + 1]
    /\ detectors' = [detectors EXCEPT ![k] = built[k] + 1]

\* lines 126-131, at import: _mp_hands = mp.solutions.hands.Hands(...);
\* with mp = None the attribute access raises and the import fails
EagerHands ==
    /\ modPc = "eager_hands"
    /\ \/ /\ mp = "module"
          /\ Construct("hands")
          /\ modPc' = "eager_pose"
       \/ /\ modPc' = "crashed"
          /\ UNCHANGED <<detectors, built>>
    /\ UNCHANGED <<mp, used, dPc, dKind, dInst>>
    /\ UNCHANGED <<predictVars, registryVars, cropVars, httpVars>>

\* lines 132-137, at import: _mp_pose = mp.solutions.pose.Pose(...)
EagerPose ==
    /\ modPc = "eager_pose"
    /\ \/ /\ Construct("pose")
          /\ modPc' = "ready"
       \/ /\ modPc' = "crashed"
          /\ UNCHANGED <<detectors, built>>
    /\ UNCHANGED <<mp, used, dPc, dKind, dInst>>
    /\ UNCHANGED <<predictVars, registryVars, cropVars, httpVars>>

\* lines 178, 212, 242, 271: an extractor calls get_mediapipe_models() for
\* the detector of class k
ExtractorCall(t, k) ==
    /\ modPc = "ready"
    /\ dPc[t] = "idle"
    /\ dPc' = [dPc EXCEPT ![t] = "check_mp"]
    /\ dKind' = [dKind EXCEPT ![t] = k]
    /\ dInst' = [dInst EXCEPT ![t] = 0]
    /\ used' = TRUE
    /\ UNCHANGED <<mp, modPc, detectors, built>>
    /\ UNCHANGED <<predictVars, registryVars, cropVars, httpVars>>

\* lines 89-90: if mp is None: return None, None, None
CheckMp(t) ==
    /\ dPc[t] = "check_mp"
    /\ dPc' = [dPc EXCEPT ![t] = IF mp = "None" THEN "got" ELSE "check_face"]
    /\ UNCHANGED <<mp, modPc, detectors, built, used, dKind, dInst>>
    /\ UNCHANGED <<predictVars, registryVars, cropVars, httpVars>>

\* line 92: if _mp_face_mesh is None
CheckFaceMesh(t) ==
    /\ dPc[t] = "check_face"
    /\ dPc' = [dPc EXCEPT ![t] = IF detectors["face_mesh"] = 0
                                 THEN "new_face" ELSE "return"]
    /\ UNCHANGED <<mp, modPc, detectors, built, used, dKind, dInst>>
    /\ UNCHANGED <<predictVars, registryVars, cropVars, httpVars>>

\* lines 94-112 inside the try of line 93: the constructor call at statement
\* p of thread t succeeds and control goes on to statement q, or it raises
\* and `except Exception` (lines 114-115) prints and falls through to
\* line 117
NewDetector(t, p, k, q) ==
    /\ dPc[t] = p
    /\ \/ /\ Construct(k)
          /\ dPc' = [dPc EXCEPT ![t] = q]
       \/ /\ dPc' = [dPc EXCEPT ![t] = "return"]
          /\ UNCHANGED <<detectors, built>>
    /\ UNCHANGED <<mp, modPc, used, dKind, dInst>>
    /\ UNCHANGED <<predictVars, registryVars, cropVars, httpVars>>

\* lines 94-100
NewFaceMesh(t) == NewDetector(t, "new_face", "face_mesh", "new_hands")
\* lines 101-106
NewHands(t) == NewDetector(t, "new_hands", "hands", "new_pose")
\* lines 107-113
NewPose(t) == NewDetector(t, "new_pose", "pose", "return")

\* line 117: return _mp_face_mesh, _mp_hands, _mp_pose, of which the
\* extractor keeps the one it asked for
ReturnDetectors(t) ==
    /\ dPc[t] = "return"
    /\ dInst' = [dInst EXCEPT ![t] = detectors[dKind[t]]]
    /\ dPc' = [dPc EXCEPT ![t] = "got"]
    /\ UNCHANGED <<mp, modPc, detectors, built, used, dKind>>
    /\ UNCHANGED <<predictVars, registryVars, cropVars, httpVars>>

\* lines 179-184, 213-218, 243-248, 272-277: None ends the extractor;
\* otherwise it calls process(rgb) on the instance
EnterProcess(t) ==
    /\ dPc[t] = "got"
    /\ dPc' = [dPc EXCEPT ![t] = IF dInst[t] = 0 THEN "idle" ELSE "process"]
    /\ UNCHANGED <<mp, modPc, detectors, built, used, dKind, dInst>>
    /\ UNCHANGED <<predictVars, registryVars, cropVars, httpVars>>

\* lines 184, 218, 248, 277: process(rgb) returns; the rest of the extractor
\* touches no shared state
LeaveProcess(t) ==
    /\ dPc[t] = "process"
    /\ dPc' = [dPc EXCEPT ![t] = "idle"]
    /\ UNCHANGED <<mp, modPc, detectors, built, used, dKind, dInst>>
    /\ UNCHANGED <<predictVars, registryVars, cropVars, httpVars>>

InitDetectors == Init /\ context = "no_sigalrm"

NextDetectors ==
    \/ ImportMp
    \/ EagerHands
    \/ EagerPose
    \/ \E t \in Threads, k \in Kinds : ExtractorCall(t, k)
    \/ \E t \in Threads : CheckMp(t)
    \/ \E t \in Threads : CheckFaceMesh(t)
    \/ \E t \in Threads : NewFaceMesh(t)
    \/ \E t \in Threads : NewHands(t)
    \/ \E t \in Threads : NewPose(t)
    \/ \E t \in Threads : ReturnDetectors(t)
    \/ \E t \in Threads : EnterProcess(t)
    \/ \E t \in Threads : LeaveProcess(t)

SpecDetectors == InitDetectors /\ [][NextDetectors]_vars

\* ------------------------------------------------------ region extraction
\* Lengths are integers in units of 1 / Grid pixel: the landmark value
\* k / Grid on a side of s pixels is the pixel coordinate k * s / Grid,
\* written k * s.
SetMin(S) == CHOOSE x \in S : \A y \in S : x <= y
SetMax(S) == CHOOSE x \in S : \A y \in S : y <= x
IntMax(a, b) == IF a < b THEN b ELSE a
IntMin(a, b) == IF b < a THEN b ELSE a
\* int(v) for v >= 0
int(v) == v \div Grid

\* lines 196, 229, 258: the padding of extractor f
pad(f) == IF f = "_foot_crop" THEN FOOT_PAD ELSE CROP_PAD

\* Mutant of box_side: the box is not clamped to the image.
box_side_unclamped(f, S, s) ==
    [lo |-> SetMin({k * s : k \in S}) - pad(f) * Grid,
     hi |-> SetMax({k * s : k \in S}) + pad(f) * Grid]

\* lines 193-197, 226-230, 256-259: [lo, hi] of the box along a side of s
\* pixels, from the landmark values S on that side
box_side(f, S, s) ==
    [lo |-> IntMax(SetMin({k * s : k \in S}) - pad(f) * Grid, 0),
     hi |-> IntMin(SetMax({k * s : k \in S}) + pad(f) * Grid, s * Grid)]

\* line 202: the number of indices the slice a[lo:hi] selects on an axis of
\* s elements (numpy clips the bounds to the axis)
slice_len(lo, hi, s) == IntMax(IntMin(hi, s) - IntMin(lo, s), 0)

\* lines 189-206, 223-236, 253-265: the extractor from the landmarks on
extract_crop(f, sh, lm) ==
    LET x == box_side(f, lm.xs, sh.w)
        y == box_side(f, lm.ys, sh.h)
        rows == slice_len(int(y.lo), int(y.hi), sh.h)
        cols == slice_len(int(x.lo), int(x.hi), sh.w)
    IN  IF x.hi - x.lo < MIN_BOX * Grid \/ y.hi - y.lo < MIN_BOX * Grid
        THEN NoCrop
        ELSE IF rows * cols * 3 = 0
             THEN NoCrop
             ELSE [found |-> TRUE,
                   top |-> int(y.lo), bottom |-> int(y.hi),
                   left |-> int(x.lo), right |-> int(x.hi),
                   rows |-> rows, cols |-> cols]

\* One extractor call from line 189 (223, 253) on.
Extract ==
    /\ cropPc = "start"
    /\ cropRet' = extract_crop(extractor, shape, landmarks)
    /\ cropPc' = "done"
    /\ UNCHANGED <<extractor, shape, landmarks>>
    /\ UNCHANGED <<predictVars, registryVars, detectorVars, httpVars>>

\* Every extractor, image size and detected landmark set.
InitCrop ==
    /\ InitPredict /\ context = "main"
    /\ RegistryIdle
    /\ DetectorsIdle
    /\ HttpIdle
    /\ extractor \in Extractors
    /\ shape \in Shapes
    /\ landmarks \in [xs : Coords(extractor), ys : Coords(extractor)]
    /\ cropPc = "start"
    /\ cropRet = NoCrop

NextCrop == Extract

SpecCrop == InitCrop /\ [][NextCrop]_vars

\* ------------------------------------------------------- POST /analyze
\* analyze (app.py lines 23-74), one request at a time.
httpRest == <<predictVars, registryVars, detectorVars, cropVars>>

\* bool(v) of Python
truthy(v) ==
    CASE v.kind \in {"missing", "null"} -> FALSE
      [] v.kind = "bool" -> v.num = One
      [] v.kind = "number" -> ~Eq(v.num, Zero)
      [] v.kind \in {"string", "list", "dict"} -> v.len > 0

\* a or b
py_or(a, b) == IF truthy(a) THEN a ELSE b

\* json.dump (line 45) and json.load (line 51) of a value
json_dump(v) == <<v.kind, v.text, v.num, v.len>>
json_load(x) == [kind |-> x[1], text |-> x[2], num |-> x[3], len |-> x[4]]
\* a dict key as json.dump writes it and json.load reads it
json_key(v) == v.text

\* a request arrives
Receive ==
    /\ httpPc = "idle"
    /\ request' \in Requests
    /\ httpPc' = "get_json"
    /\ UNCHANGED <<behavior_type, payload, temp_file, predictCalls, response>>
    /\ UNCHANGED httpRest

\* the response has been sent; the server waits for the next request
Served ==
    /\ httpPc = "done"
    /\ request' = [body |-> "empty_object", behaviorType |-> Missing,
                   behavior_type |-> Missing, data |-> Missing,
                   frame |-> Missing, frame_sequence |-> Missing]
    /\ httpPc' = "idle"
    /\ behavior_type' = Missing
    /\ payload' = Missing
    /\ temp_file' = NoFile
    /\ predictCalls' = <<>>
    /\ response' = 0
    /\ UNCHANGED httpRest

\* lines 26-32: data = request.get_json(); if not data: 400
GetJson ==
    /\ httpPc = "get_json"
    /\ IF request.body = "empty_object"
       THEN httpPc' = "done" /\ response' = 400
       ELSE httpPc' = "fields" /\ UNCHANGED response
    /\ UNCHANGED <<request, behavior_type, payload, temp_file, predictCalls>>
    /\ UNCHANGED httpRest

\* lines 34-35; a JSON array has no get: AttributeError, caught at line 69
Fields ==
    /\ httpPc = "fields"
    /\ IF request.body = "array"
       THEN /\ httpPc' = "done"
            /\ response' = 500
            /\ UNCHANGED <<behavior_type, payload>>
       ELSE /\ behavior_type' = py_or(request.behaviorType,
                                      request.behavior_type)
            /\ payload' = py_or(py_or(request.data, request.frame),
                                request.frame_sequence)
            /\ httpPc' = "validate"
            /\ UNCHANGED response
    /\ UNCHANGED <<request, temp_file, predictCalls>>
    /\ UNCHANGED httpRest

\* lines 37-41: if not behavior_type or not payload: 400
Validate ==
    /\ httpPc = "validate"
    /\ IF ~truthy(behavior_type) \/ ~truthy(payload)
       THEN httpPc' = "done" /\ response' = 400
       ELSE httpPc' = "dump" /\ UNCHANGED response
    /\ UNCHANGED <<request, behavior_type, payload, temp_file, predictCalls>>
    /\ UNCHANGED httpRest

\* lines 44-46: json.dump({behavior_type: payload}, f); a list is not
\* hashable: TypeError, caught at line 69
Dump ==
    /\ httpPc = "dump"
    /\ IF behavior_type.kind = "list"
       THEN /\ httpPc' = "done"
            /\ response' = 500
            /\ UNCHANGED temp_file
       ELSE /\ temp_file' = <<json_key(behavior_type), json_dump(payload)>>
            /\ httpPc' = "predict"
            /\ UNCHANGED response
    /\ UNCHANGED <<request, behavior_type, payload, predictCalls>>
    /\ UNCHANGED httpRest

\* lines 50-54: data_dict = json.load(f);
\* behavior_data = data_dict.get(behavior_type, payload);
\* result = _predict(behavior_type, behavior_data)
CallPredict ==
    /\ httpPc = "predict"
    /\ LET behavior_data == IF temp_file[1] = behavior_type.text
                            THEN json_load(temp_file[2]) ELSE payload
       IN  predictCalls' = Append(predictCalls,
               [behavior |-> behavior_type.text, data |-> behavior_data])
    /\ httpPc' = "respond"
    /\ UNCHANGED <<request, behavior_type, payload, temp_file, response>>
    /\ UNCHANGED httpRest

\* lines 56-67: the 200 response; finally: os.unlink(temp_file)
Respond ==
    /\ httpPc = "respond"
    /\ response' = 200
    /\ temp_file' = NoFile
    /\ httpPc' = "done"
    /\ UNCHANGED <<request, behavior_type, payload, predictCalls>>
    /\ UNCHANGED httpRest

InitHttp == Init /\ context = "worker"

NextHttp ==
    \/ Receive
    \/ Served
    \/ GetJson
    \/ Fields
    \/ Validate
    \/ Dump
    \/ CallPredict
    \/ Respond

SpecHttp == InitHttp /\ [][NextHttp]_vars

\* ------------------------------------------------------------------- claims
\* The call is over: _predict returned or raised.
CallOver == pc \in {"done", "raised"}
\* The dispatcher's return value is in hand: it has just returned to
\* _predict, or _predict has returned it (lines 308, 319, 323).
AtReturn == pc = "after_dispatch" \/ (pc = "done" /\ exc = NoExc)
Returned == IF pc = "after_dispatch" THEN ret ELSE result
\* A well-formed Prediction Result
WellFormed(r) ==
    /\ r.status \in {"success", "error", "timeout"}
    /\ InUnit(r.predicted_score)
    /\ InUnit(r.confidence)
    /\ Len(r.message) > 0
NoFrameTouched == decoded = <<>> /\ i = 0 /\ img = 0 /\ found = 0 /\ valid = 0

\* C1: on a platform with SIGALRM, in the main thread, whenever the 30 s
\* deadline elapses while the dispatcher is still running (at whatever
\* statement), _predict returns the timeout result 0.3 / 0.5 / "timeout".
C1_TimeoutWhereverItFires ==
    (context = "main" /\ expired /\ CallOver) =>
        (outcome = "returned" /\ result = timeout_result)

\* C2: every call of _predict ends by returning (never by raising) a
\* well-formed result: scores in [0,1], a known status, a message.
C2_AlwaysReturnsWellFormed ==
    CallOver => (outcome = "returned" /\ WellFormed(result))

\* C2 (part that holds): whatever _predict returns is well-formed.
C2_ReturnedIsWellFormed ==
    (pc = "done") => (outcome = "returned" /\ WellFormed(result))

\* C3: where no alarm can be armed (no SIGALRM, no signal module), a
\* dispatcher run that exceeds the budget still ends with the timeout
\* result.
C3_BudgetEnforcedEverywhere ==
    (context \in {"no_sigalrm", "no_signal"} /\ expired /\ CallOver) =>
        (outcome = "returned" /\ result = timeout_result)

\* C4: when the dispatcher (or model loading) raises an error other than
\* the timeout, _predict returns 0.3 / 0.5 / "error" with the error's text
\* in the message.
C4_ErrorIsCaught ==
    (dispRaised # NoExc /\ CallOver) =>
        /\ outcome = "returned"
        /\ result.predicted_score = Rat(3, 10)
        /\ result.confidence = Rat(1, 2)
        /\ result.status = "error"
        /\ result.message[Len(result.message)] = dispRaised

\* C5: for a label outside the five behaviours, whatever the payload, the
\* dispatcher's result is 0.0 / 0.0 / "error" with a message naming the
\* label, and no frame was decoded nor handed to an extractor (an extractor
\* only ever receives a decoded frame).
C5_UnknownBehavior ==
    (AtReturn /\ behavior \notin {"rapid_talking", "eye_gaze", "sit_stand",
                                  "tapping_hands", "tapping_feet"}) =>
        /\ Returned.predicted_score = Zero
        /\ Returned.confidence = Zero
        /\ Returned.status = "error"
        /\ \E k \in 1 .. Len(Returned.message) : Returned.message[k] = behavior
        /\ NoFrameTouched

C5_Witness ==
    /\ pc = "done"
    /\ behavior = "Eye_Gaze"
    /\ data.kind = "list" /\ data.len = FRAME_CAP + 1
    /\ result.status = "error"
    /\ result.predicted_score = Zero

\* The payload has the wrong shape for a recognized behaviour: neither a
\* number nor a list for rapid_talking (Python counts a bool as a number);
\* not a list, or the empty list, for an image-based behaviour.
WrongShape ==
    \/ behavior = "rapid_talking" /\ data.kind \in {"null", "string", "dict"}
    \/ behavior \in ImageBehaviors /\ (data.kind # "list" \/ data.len = 0)

\* C6: a wrong-shaped payload (or an empty list for an image-based
\* behaviour) yields the fallback: status "success", score in [0.1, 0.9],
\* confidence in [0.6, 0.95], no frame decoded, no extractor invoked.
C6_WrongShapeFallsBack ==
    (AtReturn /\ WrongShape) =>
        /\ Returned.status = "success"
        /\ Le(Rat(1, 10), Returned.predicted_score)
        /\ Le(Returned.predicted_score, Rat(9, 10))
        /\ Le(Rat(3, 5), Returned.confidence)
        /\ Le(Returned.confidence, Rat(19, 20))
        /\ NoFrameTouched

C6_Witness ==
    /\ pc = "done"
    /\ behavior = "tapping_feet"
    /\ data.kind = "list" /\ data.len = 0
    /\ result.status = "success"
    /\ result.predicted_score = Rat(9, 10)

\* The status the detection-backed results carry (lines 393, 426, 458, 490)
GenuineStatus == image_result("eye_gaze", 1, 1).status

\* C7: a demo fallback result carries a status different from the status of
\* a detection-backed success result.
C7_FallbackStatusDistinct ==
    (pc = "after_dispatch" /\ ret = fallback) => ret.status # GenuineStatus

\* The numeric feature of a rapid_talking payload, as the claim defines it
ClaimedFeature == IF data.kind = "list" THEN Rat(data.len, 1) ELSE data.num
ClaimedRapid(r, f) ==
    /\ r.status = "success"
    /\ r.confidence = Rat(4, 5)
    /\ r.feature_count = f
    /\ Le(f, Zero) => Eq(r.predicted_score, Rat(1, 10))
    /\ (Lt(Zero, f) /\ Lt(f, Rat(100, 1))) =>
           Eq(r.predicted_score, Rat(f[1], 100 * f[2]))
    /\ Le(Rat(100, 1), f) => Eq(r.predicted_score, One)

\* C8: for rapid_talking with a numeric or list payload the dispatcher
\* returns status "success", confidence 0.8, feature_count = feature and
\* the score 0.1 / feature/100 / 1.0 by the feature's range; an integer
\* beyond the double range is a number >= 100 and is to score 1.0.
C8_RapidTalkingScore ==
    (behavior = "rapid_talking"
        /\ data.kind \in {"number", "bool", "list", "hugeint"}) =>
        /\ dispRaised = NoExc
        /\ AtReturn => IF data.kind = "hugeint"
                       THEN /\ Returned.status = "success"
                            /\ Eq(Returned.predicted_score, One)
                       ELSE ClaimedRapid(Returned, ClaimedFeature)

\* C8 (part that holds): the same for every payload float() can convert.
C8_ConvertibleNumbers ==
    (AtReturn /\ behavior = "rapid_talking"
        /\ data.kind \in {"number", "bool", "list"}) =>
        ClaimedRapid(Returned, ClaimedFeature)

\* The fixed confidences the claim lists
ClaimedConfidence ==
    [b \in ImageBehaviors |->
        CASE b = "eye_gaze" -> Rat(75, 100)
          [] b = "sit_stand" -> Rat(7, 10)
          [] b = "tapping_hands" -> Rat(8, 10)
          [] b = "tapping_feet" -> Rat(75, 100)]

\* C9: for an image-based behaviour and n >= 1 frames, when the deadline
\* does not elapse while the dispatcher runs, the result has status
\* "success", the behaviour's fixed confidence and score d / n, d being the
\* number of frames on which the extractor found its region and n the
\* submitted count; frames without landmarks add nothing to d.
C9_ImageScore ==
    (AtReturn /\ ~expired /\ behavior \in ImageBehaviors
        /\ data.kind = "list" /\ data.len >= 1) =>
        /\ Returned.status = "success"
        /\ Eq(Returned.confidence, ClaimedConfidence[behavior])
        /\ Eq(Returned.predicted_score, Rat(found, data.len))
        /\ Returned.detections = found
        /\ found <= Len(decoded)

C9_Witness ==
    /\ pc = "done"
    /\ behavior = "sit_stand"
    /\ data.len = FRAME_CAP + 1
    /\ found = 7
    /\ Len(decoded) = FRAME_CAP
    /\ result.predicted_score = Rat(7, FRAME_CAP + 1)
    /\ result.confidence = Rat(7, 10)

\* C10: for an image-based behaviour, frames are handed to _decode_image
\* in submission order, at most once each, and never beyond frame 10; the
\* extractor is handed the frame just decoded; and with n > 10 frames, when
\* the deadline does not elapse while the dispatcher runs, exactly frames
\* 1..10 have been decoded at the end and frames_processed = n.
C10_FrameCap ==
    /\ \A k \in 1 .. Len(decoded) :
          /\ decoded[k] \in 1 .. 10
          /\ k > 1 => decoded[k - 1] < decoded[k]
          /\ ~expired => decoded[k] = k
    /\ pc = "extract" => (img = i /\ decoded[Len(decoded)] = i)
    /\ (AtReturn /\ ~expired /\ behavior \in ImageBehaviors
           /\ data.kind = "list" /\ data.len > 10) =>
          /\ decoded = <<1, 2, 3, 4, 5, 6, 7, 8, 9, 10>>
          /\ Returned.frames_processed = data.len

C10_Witness ==
    /\ pc = "done"
    /\ behavior = "tapping_hands"
    /\ data.len = 40
    /\ Len(decoded) = 10
    /\ found = 10
    /\ result.frames_processed = 40
    /\ result.detections = 10


\* C11: in the frame loop of an image-based behaviour a frame whose
\* decoding or extraction raises is skipped and not counted; every frame of
\* the first 10 is still handed to the decoder, every region found is
\* counted, and the batch ends with status "success" and the counters of
\* the other frames (when the deadline does not elapse meanwhile).
C11_BadFrameSkipped ==
    /\ (pc = "frame_err" /\ ~expired) =>
          (valid = found /\ found <= Len(decoded) - 1)
    /\ (AtReturn /\ ~expired /\ behavior \in ImageBehaviors
           /\ data.kind = "list" /\ data.len >= 1) =>
          /\ Returned.status = "success"
          /\ Len(decoded) = (IF data.len < 10 THEN data.len ELSE 10)
          /\ Returned.detections = found
          /\ Returned.frames_processed = data.len
          /\ skipped => found <= Len(decoded) - 1

C11_Witness ==
    /\ pc = "done"
    /\ behavior = "eye_gaze"
    /\ data.len = FRAME_CAP
    /\ skipped
    /\ found = FRAME_CAP - 1
    /\ result.status = "success"
    /\ result.detections = FRAME_CAP - 1

\* C15: with SIGALRM, in the main thread, no alarm is pending when _predict
\* has returned, and no TimeoutError is ever raised outside a call.
C15_NoAlarmLeftPending ==
    /\ (context = "main" /\ pc = "done") => alarm = "off"
    /\ ~stray

\* C16: in every execution context (main thread or request thread), a call
\* whose dispatcher does not raise and during which no timeout occurs
\* returns the dispatcher's result unchanged.
C16_ResultPassedThrough ==
    (CallOver /\ exc # TimeoutErr /\ ~expired
        /\ ~(behavior = "rapid_talking" /\ data.kind = "hugeint")) =>
        (outcome = "returned" /\ ret # NoResult /\ result = ret)

\* C16 (part that holds): the same outside the request threads.
C16_MainThreadPassesThrough ==
    (context # "worker" /\ CallOver /\ exc # TimeoutErr /\ ~expired
        /\ ~(behavior = "rapid_talking" /\ data.kind = "hugeint")) =>
        (outcome = "returned" /\ ret # NoResult /\ result = ret)

\* C18: the detection counter d satisfies 0 <= d <= min(n, 10) <= n at
\* every step of the frame loop, and in every image-based result
\* frames_processed = n, the score is exactly d / n (the clamp to 1.0 never
\* decides it) and, for n > 10, at most 10 / n < 1.
C18_DetectionBounds ==
    /\ pc \in InnerTryPcs \cup OuterTryPcs =>
          /\ 0 <= valid
          /\ valid <= (IF data.len < 10 THEN data.len ELSE 10)
          /\ valid <= i
    /\ (AtReturn /\ Returned.counter # "none") =>
          /\ 0 <= Returned.detections
          /\ Returned.detections <= (IF data.len < 10 THEN data.len ELSE 10)
          /\ Returned.frames_processed = data.len
          /\ Eq(Returned.predicted_score,
                Rat(Returned.detections, Returned.frames_processed))
          /\ data.len > 10 =>
                /\ Le(Returned.predicted_score, Rat(10, data.len))
                /\ Lt(Returned.predicted_score, One)

C18_Witness ==
    /\ pc = "done"
    /\ behavior = "tapping_feet"
    /\ data.len = FRAME_CAP + 1
    /\ result.detections = FRAME_CAP
    /\ result.predicted_score = Rat(FRAME_CAP, FRAME_CAP + 1)


\* C13: get_models never raises; load_all_models is invoked at most once in
\* the life of the process; once a load has failed (or the loader is
\* unavailable) the registry is the empty mapping, and every call returns a
\* mapping.
C13_LoadedOnceNeverRaises ==
    /\ ~gmRaised
    /\ loads <= 1
    /\ gmFailed => (MODELS = "empty" \/ \E t \in Threads : gmPc[t] = "load")
    /\ \A t \in Threads : gmRet[t] \in {"nothing", "loaded", "empty"}

\* C13 (part that holds): the same as long as no two calls of get_models
\* overlap; and, overlapping or not, get_models never raises, never returns
\* None, and a loader that is unavailable is never invoked.
C13_SequentialCalls ==
    /\ ~gmRaised
    /\ \A t \in Threads : gmRet[t] \in {"nothing", "loaded", "empty"}
    /\ load_all_models = "None" => (loads = 0 /\ MODELS \in {"None", "empty"})
    /\ ~gmOverlap =>
          /\ loads <= 1
          /\ gmFailed => MODELS = "empty"
          /\ MODELS = "loaded" => loads = 1


\* C12: each landmark detector class is instantiated at most once in the
\* life of the process, and not before a request first asks for the
\* detectors.
C12_ConstructedOnceOnFirstUse ==
    \A k \in Kinds :
        /\ built[k] <= 1
        /\ built[k] >= 1 => used

\* C12 (part that holds): FaceMesh is never constructed before a request
\* asks for the detectors, and no extractor works on an instance that was
\* not constructed.
C12_FaceMeshIsLazy ==
    /\ built["face_mesh"] >= 1 => used
    /\ \A t \in Threads : dInst[t] <= built[dKind[t]]

\* C14: no two threads are inside process() of the same detector instance
\* at the same time.
C14_ProcessSerialized ==
    \A t \in Threads, u \in Threads :
        (t # u /\ dPc[t] = "process" /\ dPc[u] = "process"
            /\ dKind[t] = dKind[u]) => dInst[t] # dInst[u]


\* C17: for each extractor, image size and detected landmark set with
\* coordinates in [0, 1], with the box being the landmarks' pixel minimum
\* and maximum widened by the padding (10 px eye and hand, 20 px foot) and
\* clamped to the image: the extractor returns not-found exactly when the
\* box's width or height is below 10 px, and otherwise a crop that lies
\* inside the image and is at least 10 px wide and high after the
\* truncation of the corners to integers.
ClaimedPad == IF extractor = "_foot_crop" THEN 20 ELSE 10
\* numerators over Grid of the claimed box on a side of s pixels
ClaimedLo(S, s) ==
    LET m == SetMin({k * s : k \in S}) - ClaimedPad * Grid
    IN  IF m < 0 THEN 0 ELSE m
ClaimedHi(S, s) ==
    LET m == SetMax({k * s : k \in S}) + ClaimedPad * Grid
    IN  IF m > s * Grid THEN s * Grid ELSE m
ClaimedTooSmall ==
    \/ ClaimedHi(landmarks.xs, shape.w) - ClaimedLo(landmarks.xs, shape.w)
          < 10 * Grid
    \/ ClaimedHi(landmarks.ys, shape.h) - ClaimedLo(landmarks.ys, shape.h)
          < 10 * Grid

C17_CropBox ==
    cropPc = "done" =>
        /\ cropRet.found = ~ClaimedTooSmall
        /\ cropRet.found =>
              /\ 0 <= cropRet.left /\ cropRet.right <= shape.w
              /\ 0 <= cropRet.top /\ cropRet.bottom <= shape.h
              /\ cropRet.right - cropRet.left >= 10
              /\ cropRet.bottom - cropRet.top >= 10
              /\ cropRet.cols = cropRet.right - cropRet.left
              /\ cropRet.rows = cropRet.bottom - cropRet.top
              /\ cropRet.left * Grid <= ClaimedLo(landmarks.xs, shape.w)
              /\ ClaimedLo(landmarks.xs, shape.w) < (cropRet.left + 1) * Grid
              /\ cropRet.right * Grid <= ClaimedHi(landmarks.xs, shape.w)
              /\ ClaimedHi(landmarks.xs, shape.w) < (cropRet.right + 1) * Grid

\* an accepted foot box whose left edge is not a whole pixel and whose right
\* edge is clamped to the image
C17_Witness ==
    /\ cropPc = "done"
    /\ extractor = "_foot_crop"
    /\ cropRet.found
    /\ ClaimedLo(landmarks.xs, shape.w) % Grid # 0
    /\ cropRet.right = shape.w
    /\ cropRet.cols >= 10


\* C19: a request in which behavior_type (or behaviorType) and at least one
\* of data / frame / frame_sequence are present reaches _predict exactly
\* once with a submitted payload value, whatever that value is; any other
\* request is rejected and never reaches _predict.
\* (a key whose value is null counts as absent)
LabelPresent ==
    /\ request.body = "object"
    /\ \/ request.behaviorType.kind \notin {"missing", "null"}
       \/ request.behavior_type.kind \notin {"missing", "null"}
PresentPayloads ==
    {v \in {request.data, request.frame, request.frame_sequence} :
        v.kind \notin {"missing", "null"}}
C19_CoreInvokedOnce ==
    httpPc = "done" =>
        IF LabelPresent /\ PresentPayloads # {}
        THEN /\ Len(predictCalls) = 1
             /\ predictCalls[1].data \in PresentPayloads
             /\ response = 200
        ELSE /\ predictCalls = <<>>
             /\ response # 200

\* C19 (part that holds): _predict is called at most once per request; a
\* request whose label is a non-empty string and which has a payload alias
\* with a truthy value reaches it with the label and the first such value,
\* unchanged by the temporary file; every other request is answered 400 or
\* 500 without reaching it.
TruthyPayloads ==
    LET all == <<request.data, request.frame, request.frame_sequence>>
    IN  {n \in 1 .. 3 : truthy(all[n])}
FirstTruthyPayload ==
    LET all == <<request.data, request.frame, request.frame_sequence>>
    IN  all[SetMin(TruthyPayloads)]
ClaimedLabel ==
    IF truthy(request.behaviorType) THEN request.behaviorType
    ELSE request.behavior_type
C19_TruthyRequestsReachCore ==
    /\ Len(predictCalls) <= 1
    /\ httpPc = "done" =>
        IF request.body = "object" /\ ClaimedLabel.kind = "string"
             /\ ClaimedLabel.text # "" /\ TruthyPayloads # {}
        THEN /\ predictCalls = <<[behavior |-> ClaimedLabel.text,
                                  data |-> FirstTruthyPayload]>>
             /\ response = 200
        ELSE /\ predictCalls = <<>>
             /\ response \in {400, 500}

====
